---- MODULE Spec2Model ----
(***************************************************************************)
(* Model of scripts/sync_storagehub_textures.py: the tile padding          *)
(* transform pad_2x2_tile_sheet and the sync driver main().                *)
(*                                                                         *)
(* An image is a record [mode, size, px]: mode is the PIL mode string,     *)
(* size is <<width, height>> and px maps every <<x, y>> of the image to    *)
(* its pixel, a tuple with one entry per band of the mode.                 *)
(***************************************************************************)
EXTENDS Integers, Sequences, FiniteSets, TLC

VARIABLES
    harness,        \* "pad": a direct call of pad_2x2_tile_sheet; "main": a run of main()
    image,          \* pad harness: the argument of pad_2x2_tile_sheet
    padResult,      \* pad harness: outcome of the call (NotCalled before it)
    srcDirExists,   \* main: source_dir.exists()
    srcFiles,       \* main: files of source_dir, file name -> image
    itemsDirExists, \* main: items_dir exists
    tilesDirExists, \* main: tiles_dir exists
    items,          \* main: files of items_dir, file name -> image
    tiles,          \* main: files of tiles_dir, file name -> image
    pc,             \* main: position in main()
    idx,            \* main: index into MAPPINGS of the record of the for loop (0 before it)
    src_image,      \* main: the local src_image of the current iteration
    copied,         \* main: the local copied
    skipped,        \* main: the local skipped
    stdout,         \* main: the lines printed so far
    error,          \* main: the exception that ended the run, or "None"
    exitCode        \* main: the process exit code, -1 while running

vars == <<harness, image, padResult, srcDirExists, srcFiles, itemsDirExists,
          tilesDirExists, items, tiles, pc, idx, src_image, copied, skipped,
          stdout, error, exitCode>>

padVars == <<image, padResult>>
mainVars == <<srcDirExists, srcFiles, itemsDirExists, tilesDirExists, items,
              tiles, pc, idx, src_image, copied, skipped, stdout, error, exitCode>>

----------------------------------------------------------------------------
(* Bounds of the enumerated inputs *)

\* pixel patterns 1..MaxSeed are tried for every size and mode
MaxSeed == 2

\* the side lengths the pad harness combines into input sizes
Dims == {16, 32, 36, 64}

\* the modes of the input images
Modes == {"RGBA", "RGB", "L"}

----------------------------------------------------------------------------
(* Constants of pad_2x2_tile_sheet *)

SrcSide == 32       \* side of the unpadded 2x2 sheet
OutSide == 36       \* side of the padded sheet
FrameSide == 16     \* side of one frame
\* the pitch is the frame side: no padding between the frames
FramePitch_NoPadding == FrameSide
FramePitch == 18    \* frame side plus the 2px padding

Transparent == <<0, 0, 0, 0>>

----------------------------------------------------------------------------
(* Images *)

Coords(size) == (0..(size[1] - 1)) \X (0..(size[2] - 1))

\* the pixel of pattern seed at (x, y), with the bands of the mode
GenPixel(mode, seed, x, y) ==
    LET r == (x + seed) % 256
        g == (y + 3 * seed) % 256
        b == (x * y + seed) % 256
        a == IF seed % 2 = 1 THEN 255 ELSE (7 * x + 5 * y + seed) % 256
    IN  CASE mode = "RGBA" -> <<r, g, b, a>>
          [] mode = "RGB"  -> <<r, g, b>>
          [] mode = "L"    -> <<(r + g + b) % 256>>

GenImage(mode, size, seed) ==
    [mode |-> mode, size |-> size,
     px |-> [p \in Coords(size) |-> GenPixel(mode, seed, p[1], p[2])]]

\* Image.new(mode, size, color)
NewImage(mode, size, color) ==
    [mode |-> mode, size |-> size, px |-> [p \in Coords(size) |-> color]]

\* one pixel converted to RGBA: the missing alpha band is opaque, L is replicated
PixelToRGBA(mode, v) ==
    CASE mode = "RGBA" -> v
      [] mode = "RGB"  -> <<v[1], v[2], v[3], 255>>
      [] mode = "L"    -> <<v[1], v[1], v[1], 255>>

\* Image.convert("RGBA")
ConvertRGBA(im) ==
    [mode |-> "RGBA", size |-> im.size,
     px |-> [p \in Coords(im.size) |-> PixelToRGBA(im.mode, im.px[p])]]

\* the pixel of a mode with every band 0
ZeroPixel(mode) ==
    CASE mode = "RGBA" -> <<0, 0, 0, 0>>
      [] mode = "RGB"  -> <<0, 0, 0>>
      [] mode = "L"    -> <<0>>

\* Image.crop((left, upper, right, lower)); the part of the box outside the
\* image is filled with zero pixels
Crop(im, box) ==
    LET size == <<box[3] - box[1], box[4] - box[2]>>
    IN  [mode |-> im.mode, size |-> size,
         px |-> [p \in Coords(size) |->
                    LET q == <<p[1] + box[1], p[2] + box[2]>>
                    IN  IF q \in Coords(im.size) THEN im.px[q] ELSE ZeroPixel(im.mode)]]

\* the pasted image is its own mask: the region is blended by the alpha band
Paste_Masked(out, im, at) ==
    [out EXCEPT !.px =
        [p \in Coords(out.size) |->
            IF /\ p[1] - at[1] \in 0..(im.size[1] - 1)
               /\ p[2] - at[2] \in 0..(im.size[2] - 1)
            THEN LET v == im.px[<<p[1] - at[1], p[2] - at[2]>>]
                     d == out.px[p]
                 IN  [c \in 1..4 |-> (v[c] * v[4] + d[c] * (255 - v[4])) \div 255]
            ELSE out.px[p]]]

\* Image.paste(im, (x, y)) without a mask: the region is overwritten
Paste(out, im, at) ==
    [out EXCEPT !.px =
        [p \in Coords(out.size) |->
            IF /\ p[1] - at[1] \in 0..(im.size[1] - 1)
               /\ p[2] - at[2] \in 0..(im.size[2] - 1)
            THEN im.px[<<p[1] - at[1], p[2] - at[2]>>]
            ELSE out.px[p]]]

----------------------------------------------------------------------------
(* Outcome of a call *)

Return(v) == [raised |-> FALSE, called |-> TRUE, value |-> v]
Raise(e) == [raised |-> TRUE, called |-> TRUE, error |-> e]
NotCalled == [raised |-> FALSE, called |-> FALSE]
NoImage == [mode |-> "None", size |-> <<0, 0>>, px |-> <<>>]

----------------------------------------------------------------------------
(* pad_2x2_tile_sheet *)

\* lines 59-67: the four frames pasted on a transparent 36x36 sheet
RepackFrames(im) ==
    LET src == ConvertRGBA(im)
        out0 == NewImage("RGBA", <<OutSide, OutSide>>, Transparent)
        out1 == Paste(out0, Crop(src, <<0, 0, FrameSide, FrameSide>>), <<0, 0>>)
        out2 == Paste(out1, Crop(src, <<FrameSide, 0, SrcSide, FrameSide>>),
                      <<FramePitch, 0>>)
        out3 == Paste(out2, Crop(src, <<0, FrameSide, FrameSide, SrcSide>>),
                      <<0, FramePitch>>)
        out4 == Paste(out3, Crop(src, <<FrameSide, FrameSide, SrcSide, SrcSide>>),
                      <<FramePitch, FramePitch>>)
    IN  out4

\* a sheet that is not 36x36 is rejected
pad_2x2_tile_sheet_NoPassThrough(im) ==
    IF im.size # <<SrcSide, SrcSide>> THEN Raise("ValueError")
    ELSE Return(RepackFrames(im))

\* a sheet is rejected only when neither side is 32
pad_2x2_tile_sheet_AnySide(im) ==
    IF im.size = <<OutSide, OutSide>> THEN Return(im)
    ELSE IF im.size[1] # SrcSide /\ im.size[2] # SrcSide THEN Raise("ValueError")
    ELSE Return(RepackFrames(im))

pad_2x2_tile_sheet(im) ==
    IF im.size = <<OutSide, OutSide>> THEN Return(im)
    ELSE IF im.size # <<SrcSide, SrcSide>> THEN Raise("ValueError")
    ELSE Return(RepackFrames(im))

----------------------------------------------------------------------------
(* The mapping table *)

None == "None"

TextureMapping(source_name, item_target_name, tile_target_name, pad_tile_2x2) ==
    [source_name |-> source_name, item_target_name |-> item_target_name,
     tile_target_name |-> tile_target_name, pad_tile_2x2 |-> pad_tile_2x2]

\* the disk record also names a tile output
MAPPINGS_DiskTile ==
    << TextureMapping("storage-core.png", "storage-heart.png", "storage-heart.png", TRUE),
       TextureMapping("storage-drive.png", "storage-unit.png", "storage-unit.png", TRUE),
       TextureMapping("storage-disk-tier-1.png", "storage-disk.png", "storage-disk.png",
                      FALSE),
       TextureMapping("disk-upgrader.png", "disk-upgrader.png", "disk-upgrader.png", TRUE) >>

MAPPINGS ==
    << TextureMapping("storage-core.png", "storage-heart.png", "storage-heart.png", TRUE),
       TextureMapping("storage-drive.png", "storage-unit.png", "storage-unit.png", TRUE),
       TextureMapping("storage-disk-tier-1.png", "storage-disk.png", None, FALSE),
       TextureMapping("disk-upgrader.png", "disk-upgrader.png", "disk-upgrader.png", TRUE) >>

Records == 1..Len(MAPPINGS)

----------------------------------------------------------------------------
(* The source folders main() is run on *)

Absent == <<"absent", <<0, 0>>>>

\* what a source file can be: absent, or an image of a mode and size
FileKinds ==
    { Absent,
      <<"RGBA", <<32, 32>>>>, <<"RGBA", <<36, 36>>>>, <<"RGBA", <<32, 36>>>>,
      <<"RGB", <<32, 32>>>> }

\* the folder in which the source of record i is of kind kinds[i]; the file of
\* record i holds pixel pattern i, so that no two files have the same pixels
SourceFolder(kinds) ==
    [n \in {MAPPINGS[i].source_name : i \in {j \in Records : kinds[j] # Absent}} |->
        LET i == CHOOSE j \in Records : MAPPINGS[j].source_name = n
        IN  GenImage(kinds[i][1], kinds[i][2], i)]

----------------------------------------------------------------------------
(* Initial states *)

InitPad ==
    /\ harness = "pad"
    /\ \E mode \in Modes, w \in Dims, h \in Dims, seed \in 1..MaxSeed :
          image = GenImage(mode, <<w, h>>, seed)
    /\ padResult = NotCalled
    /\ srcDirExists = FALSE /\ srcFiles = <<>>
    /\ itemsDirExists = FALSE /\ tilesDirExists = FALSE
    /\ items = <<>> /\ tiles = <<>>
    /\ pc = "idle"

InitMain ==
    /\ harness = "main"
    /\ image = NoImage
    /\ padResult = NotCalled
    /\ srcDirExists \in BOOLEAN
    /\ IF srcDirExists
       THEN \E kinds \in [Records -> FileKinds] : srcFiles = SourceFolder(kinds)
       ELSE srcFiles = <<>>
    /\ itemsDirExists \in BOOLEAN
    /\ tilesDirExists \in BOOLEAN
    /\ items = <<>> /\ tiles = <<>>
    /\ pc = "start"

Init ==
    /\ InitPad \/ InitMain
    /\ idx = 0
    /\ src_image = NoImage
    /\ copied = 0
    /\ skipped = 0
    /\ stdout = <<>>
    /\ error = None
    /\ exitCode = -1

----------------------------------------------------------------------------
(* A direct call of pad_2x2_tile_sheet *)

CallPad ==
    /\ harness = "pad"
    /\ ~padResult.called
    /\ padResult' = pad_2x2_tile_sheet(image)
    /\ UNCHANGED <<harness, image>>
    /\ UNCHANGED mainVars

----------------------------------------------------------------------------
(* main() *)

\* an uncaught exception ends the process: traceback, exit code 1
Uncaught(e) ==
    /\ pc' = "failed"
    /\ error' = e
    /\ exitCode' = 1

\* the for statement takes the next record, or the loop ends
NextRecord ==
    /\ idx' = idx + 1
    /\ pc' = IF idx + 1 \in Records THEN "exists" ELSE "report"

\* the two mkdir calls come before the source dir check
Start_MkdirFirst ==
    /\ harness = "main"
    /\ pc = "start"
    /\ itemsDirExists' = TRUE
    /\ tilesDirExists' = TRUE
    /\ IF ~srcDirExists
       THEN /\ Uncaught("FileNotFoundError")
            /\ UNCHANGED <<idx, copied, skipped>>
       ELSE /\ copied' = 0
            /\ skipped' = 0
            /\ idx' = 1
            /\ pc' = "exists"
            /\ UNCHANGED <<error, exitCode>>
    /\ UNCHANGED <<harness, srcDirExists, srcFiles, items, tiles, src_image, stdout>>
    /\ UNCHANGED padVars

\* lines 84-96: the source dir check, the two mkdir calls, the counters
Start ==
    /\ harness = "main"
    /\ pc = "start"
    /\ IF ~srcDirExists
       THEN /\ Uncaught("FileNotFoundError")
            /\ UNCHANGED <<itemsDirExists, tilesDirExists, idx, copied, skipped>>
       ELSE /\ itemsDirExists' = TRUE
            /\ tilesDirExists' = TRUE
            /\ copied' = 0
            /\ skipped' = 0
            /\ idx' = 1
            /\ pc' = "exists"
            /\ UNCHANGED <<error, exitCode>>
    /\ UNCHANGED <<harness, srcDirExists, srcFiles, items, tiles, src_image, stdout>>
    /\ UNCHANGED padVars

\* no exists() check: opening the missing source raises
SkipMissing_Abort ==
    /\ harness = "main"
    /\ pc = "exists"
    /\ MAPPINGS[idx].source_name \notin DOMAIN srcFiles
    /\ Uncaught("FileNotFoundError")
    /\ UNCHANGED <<harness, srcDirExists, srcFiles, itemsDirExists, tilesDirExists,
                   items, tiles, idx, src_image, copied, skipped, stdout>>
    /\ UNCHANGED padVars

\* lines 99-103: the source of the record is missing
SkipMissing ==
    /\ harness = "main"
    /\ pc = "exists"
    /\ MAPPINGS[idx].source_name \notin DOMAIN srcFiles
    /\ stdout' = Append(stdout, <<"SKIP", MAPPINGS[idx].source_name>>)
    /\ skipped' = skipped + 1
    /\ NextRecord
    /\ UNCHANGED <<harness, srcDirExists, srcFiles, itemsDirExists, tilesDirExists,
                   items, tiles, src_image, copied, error, exitCode>>
    /\ UNCHANGED padVars

\* the image is opened once and kept for the records that follow
OpenSource_Cached ==
    /\ harness = "main"
    /\ pc = "exists"
    /\ MAPPINGS[idx].source_name \in DOMAIN srcFiles
    /\ src_image' = IF src_image = NoImage
                    THEN ConvertRGBA(srcFiles[MAPPINGS[idx].source_name])
                    ELSE src_image
    /\ pc' = "item"
    /\ UNCHANGED <<harness, srcDirExists, srcFiles, itemsDirExists, tilesDirExists,
                   items, tiles, idx, copied, skipped, stdout, error, exitCode>>
    /\ UNCHANGED padVars

\* lines 99-105: the source of the record exists and is opened
OpenSource ==
    /\ harness = "main"
    /\ pc = "exists"
    /\ MAPPINGS[idx].source_name \in DOMAIN srcFiles
    /\ src_image' = ConvertRGBA(srcFiles[MAPPINGS[idx].source_name])
    /\ pc' = "item"
    /\ UNCHANGED <<harness, srcDirExists, srcFiles, itemsDirExists, tilesDirExists,
                   items, tiles, idx, copied, skipped, stdout, error, exitCode>>
    /\ UNCHANGED padVars

\* the item output is written and printed but not counted
WriteItem_NoCount ==
    /\ harness = "main"
    /\ pc = "item"
    /\ LET mapping == MAPPINGS[idx] IN
       IF mapping.item_target_name # None
       THEN /\ items' = (mapping.item_target_name :> src_image) @@ items
            /\ stdout' = Append(stdout, <<"ITEM", mapping.source_name,
                                          mapping.item_target_name>>)
       ELSE UNCHANGED <<items, stdout>>
    /\ pc' = "tile"
    /\ UNCHANGED <<harness, srcDirExists, srcFiles, itemsDirExists, tilesDirExists,
                   tiles, idx, src_image, copied, skipped, error, exitCode>>
    /\ UNCHANGED padVars

\* the tile image is computed before the item output is written
WriteItem_PadFirst ==
    /\ harness = "main"
    /\ pc = "item"
    /\ LET mapping == MAPPINGS[idx]
           tile_image == IF mapping.tile_target_name # None /\ mapping.pad_tile_2x2
                         THEN pad_2x2_tile_sheet(src_image)
                         ELSE Return(src_image)
       IN  IF tile_image.raised
           THEN /\ Uncaught(tile_image.error)
                /\ UNCHANGED <<items, stdout, copied>>
           ELSE /\ pc' = "tile"
                /\ UNCHANGED <<error, exitCode>>
                /\ IF mapping.item_target_name # None
                   THEN /\ items' = (mapping.item_target_name :> src_image) @@ items
                        /\ stdout' = Append(stdout, <<"ITEM", mapping.source_name,
                                                      mapping.item_target_name>>)
                        /\ copied' = copied + 1
                   ELSE UNCHANGED <<items, stdout, copied>>
    /\ UNCHANGED <<harness, srcDirExists, srcFiles, itemsDirExists, tilesDirExists,
                   tiles, idx, src_image, skipped>>
    /\ UNCHANGED padVars

\* lines 107-111: the item output
WriteItem ==
    /\ harness = "main"
    /\ pc = "item"
    /\ LET mapping == MAPPINGS[idx] IN
       IF mapping.item_target_name # None
       THEN /\ items' = (mapping.item_target_name :> src_image) @@ items
            /\ stdout' = Append(stdout, <<"ITEM", mapping.source_name,
                                          mapping.item_target_name>>)
            /\ copied' = copied + 1
       ELSE UNCHANGED <<items, stdout, copied>>
    /\ pc' = "tile"
    /\ UNCHANGED <<harness, srcDirExists, srcFiles, itemsDirExists, tilesDirExists,
                   tiles, idx, src_image, skipped, error, exitCode>>
    /\ UNCHANGED padVars

\* lines 113-118: the tile output, padded when the record says so
WriteTile ==
    /\ harness = "main"
    /\ pc = "tile"
    /\ LET mapping == MAPPINGS[idx]
           tile_image == IF mapping.pad_tile_2x2
                         THEN pad_2x2_tile_sheet(src_image)
                         ELSE Return(src_image)
       IN  IF mapping.tile_target_name = None
           THEN /\ NextRecord
                /\ UNCHANGED <<tiles, stdout, copied, error, exitCode>>
           ELSE IF tile_image.raised
           THEN /\ Uncaught(tile_image.error)
                /\ UNCHANGED <<tiles, stdout, copied, idx>>
           ELSE /\ tiles' = (mapping.tile_target_name :> tile_image.value) @@ tiles
                /\ stdout' = Append(stdout, <<"TILE", mapping.source_name,
                                              mapping.tile_target_name,
                                              tile_image.value.size>>)
                /\ copied' = copied + 1
                /\ NextRecord
                /\ UNCHANGED <<error, exitCode>>
    /\ UNCHANGED <<harness, srcDirExists, srcFiles, itemsDirExists, tilesDirExists,
                   items, src_image, skipped>>
    /\ UNCHANGED padVars

\* lines 120-121 and 125: the summary line, return 0, SystemExit(0)
Report ==
    /\ harness = "main"
    /\ pc = "report"
    /\ stdout' = Append(stdout, <<"DONE", copied, skipped>>)
    /\ exitCode' = 0
    /\ pc' = "done"
    /\ UNCHANGED <<harness, srcDirExists, srcFiles, itemsDirExists, tilesDirExists,
                   items, tiles, idx, src_image, copied, skipped, error>>
    /\ UNCHANGED padVars

Next ==
    \/ CallPad
    \/ Start
    \/ SkipMissing
    \/ OpenSource
    \/ WriteItem
    \/ WriteTile
    \/ Report

Spec == Init /\ [][Next]_vars

----------------------------------------------------------------------------
(* Properties of pad_2x2_tile_sheet *)

\* a direct call of pad_2x2_tile_sheet has been made on a sheet of this size
PadCalledOn(size) == harness = "pad" /\ padResult.called /\ image.size = size

\* C1: for every 32x32 input the result is a 36x36 image in which the pixel of
\* the input at (x, y) is found, unchanged, at (x + 2 if x >= 16, y + 2 if
\* y >= 16): the four 16x16 quadrants sit at (0,0), (18,0), (0,18), (18,18),
\* neither resampled nor blended.
C1_QuadrantsCopied ==
    PadCalledOn(<<32, 32>>) =>
        /\ ~padResult.raised
        /\ padResult.value.size = <<36, 36>>
        /\ padResult.value.mode = "RGBA"
        /\ DOMAIN padResult.value.px = (0..35) \X (0..35)
        /\ \A x \in 0..31, y \in 0..31 :
              LET ox == x + (IF x >= 16 THEN 2 ELSE 0)
                  oy == y + (IF y >= 16 THEN 2 ELSE 0)
                  v  == image.px[<<x, y>>]
              IN  /\ image.mode = "RGBA" => padResult.value.px[<<ox, oy>>] = v
                  /\ image.mode = "RGB" =>
                        padResult.value.px[<<ox, oy>>] = <<v[1], v[2], v[3], 255>>
                  /\ image.mode = "L" =>
                        padResult.value.px[<<ox, oy>>] = <<v[1], v[1], v[1], 255>>

\* a 32x32 RGBA sheet with translucent and fully transparent pixels was padded,
\* and the first pixel of each quadrant is at its offset
C1_Witness ==
    /\ PadCalledOn(<<32, 32>>)
    /\ image.mode = "RGBA"
    /\ \E p \in DOMAIN image.px : image.px[p][4] = 0 /\ image.px[p][1] # 0
    /\ \E p \in DOMAIN image.px : image.px[p][4] \in 1..254
    /\ padResult.value.px[<<18, 0>>] = image.px[<<16, 0>>]
    /\ padResult.value.px[<<0, 18>>] = image.px[<<0, 16>>]
    /\ padResult.value.px[<<18, 18>>] = image.px[<<16, 16>>]
    /\ padResult.value.px[<<33, 33>>] = image.px[<<31, 31>>]

\* C2: for every 32x32 input, every pixel of the result in column 16, 17, 34
\* or 35 or in row 16, 17, 34 or 35 is fully transparent black (0,0,0,0).
C2_GuttersTransparent ==
    PadCalledOn(<<32, 32>>) =>
        /\ ~padResult.raised
        /\ \A x \in 0..35, y \in 0..35 :
              (x \in {16, 17, 34, 35} \/ y \in {16, 17, 34, 35}) =>
                  padResult.value.px[<<x, y>>] = <<0, 0, 0, 0>>

\* a 32x32 sheet without any transparent black pixel was padded: the gutters
\* of the result are the only place such pixels can come from
C2_Witness ==
    /\ PadCalledOn(<<32, 32>>)
    /\ \A p \in DOMAIN image.px : PixelToRGBA(image.mode, image.px[p]) # <<0, 0, 0, 0>>
    /\ padResult.value.px[<<16, 0>>] = <<0, 0, 0, 0>>
    /\ padResult.value.px[<<35, 35>>] = <<0, 0, 0, 0>>
    /\ padResult.value.px[<<15, 15>>] # <<0, 0, 0, 0>>

\* C4: an input whose size is neither 32x32 nor 36x36 (32x36 and 36x32
\* included) makes pad_2x2_tile_sheet raise ValueError and yields no image;
\* only those two sizes ever yield an image.
C4_OtherSizesRejected ==
    (harness = "pad" /\ padResult.called) =>
        /\ image.size \notin {<<32, 32>>, <<36, 36>>} => padResult = Raise("ValueError")
        /\ ~padResult.raised => image.size \in {<<32, 32>>, <<36, 36>>}

\* sheets of 32x36, 36x32, 64x64 and 16x16 are rejected
C4_Witness ==
    /\ harness = "pad"
    /\ padResult.called
    /\ padResult.raised
    /\ image.size \in {<<32, 36>>, <<36, 32>>}

----------------------------------------------------------------------------
(* Properties of main() *)

Present(i) == MAPPINGS[i].source_name \in DOMAIN srcFiles
Source(i) == srcFiles[MAPPINGS[i].source_name]
HasItem(i) == MAPPINGS[i].item_target_name # None
HasTile(i) == MAPPINGS[i].tile_target_name # None
ItemWritten(i) == HasItem(i) /\ MAPPINGS[i].item_target_name \in DOMAIN items
TileWritten(i) == HasTile(i) /\ MAPPINGS[i].tile_target_name \in DOMAIN tiles
ItemOf(i) == items[MAPPINGS[i].item_target_name]
TileOf(i) == tiles[MAPPINGS[i].tile_target_name]

\* the loop is past record i
Past(i) == idx > i

\* out has the size and the pixels of the file src (seen as RGBA when the file
\* has another mode)
SamePixels(out, src) ==
    /\ out.size = src.size
    /\ DOMAIN out.px = DOMAIN src.px
    /\ \A p \in DOMAIN src.px :
          out.px[p] = IF src.mode = "RGBA" THEN src.px[p]
                      ELSE PixelToRGBA(src.mode, src.px[p])

\* the last line printed
LastLine == stdout[Len(stdout)]
Lines(tag) == {n \in 1..Len(stdout) : stdout[n][1] = tag}

\* C3: pad_2x2_tile_sheet returns every 36x36 input as it is (gutter pixels
\* that are not transparent included), so pad(pad(s)) = pad(s) for every
\* 32x32 input s, and a run of main() whose padded-tile source is already
\* 36x36 writes a 36x36 tile with the pixels of that source.
C3_PassThrough36 ==
    /\ PadCalledOn(<<36, 36>>) => padResult = Return(image)
    /\ PadCalledOn(<<32, 32>>) =>
          /\ ~padResult.raised
          /\ pad_2x2_tile_sheet(padResult.value) = padResult
    /\ harness = "main" =>
          \A i \in Records :
              (/\ Present(i) /\ HasTile(i) /\ MAPPINGS[i].pad_tile_2x2
               /\ Source(i).size = <<36, 36>> /\ Past(i)) =>
                  /\ TileWritten(i)
                  /\ TileOf(i).size = <<36, 36>>
                  /\ SamePixels(TileOf(i), Source(i))

\* a run wrote the tile of a 36x36 source whose gutter pixels are not transparent
C3_Witness ==
    /\ harness = "main"
    /\ pc = "done"
    /\ Present(1)
    /\ Source(1).size = <<36, 36>>
    /\ Source(1).px[<<16, 16>>] # <<0, 0, 0, 0>>
    /\ TileWritten(1)
    /\ TileOf(1).px[<<16, 16>>] = Source(1).px[<<16, 16>>]

\* the folder of the scenario of C5: storage-core.png is a 32x32 RGBA image,
\* storage-disk-tier-1.png is an RGBA image, disk-upgrader.png is missing
C5_Folder ==
    /\ harness = "main"
    /\ Present(1) /\ Source(1).mode = "RGBA" /\ Source(1).size = <<32, 32>>
    /\ Present(3) /\ Source(3).mode = "RGBA"
    /\ ~Present(4)

\* the outputs of the scenario of C5
C5_Outputs ==
    /\ ItemWritten(1) /\ SamePixels(ItemOf(1), Source(1))
    /\ TileWritten(1) /\ TileOf(1) = RepackFrames(Source(1))
    /\ TileOf(1).size = <<36, 36>>
    /\ ItemWritten(3) /\ SamePixels(ItemOf(3), Source(3))
    /\ "storage-disk.png" \notin DOMAIN tiles
    /\ "disk-upgrader.png" \notin DOMAIN items
    /\ "disk-upgrader.png" \notin DOMAIN tiles

\* C5 as stated: a run on a folder that holds storage-core.png (32x32 RGBA)
\* and storage-disk-tier-1.png and not disk-upgrader.png writes
\* items/storage-heart.png, tiles/storage-heart.png (padded) and
\* items/storage-disk.png, nothing for disk-upgrader.png, and reports
\* 3 outputs copied, 1 source skipped.
C5_AsStated ==
    (C5_Folder /\ pc = "done") =>
        /\ C5_Outputs
        /\ LastLine = <<"DONE", 3, 1>>

\* C5 amended: when the folder also lacks storage-drive.png, the run completes,
\* the outputs are exactly those three files, and the report is 3 outputs
\* copied, 2 sources skipped.
C5_TwoSkipped ==
    (C5_Folder /\ ~Present(2)) =>
        /\ pc # "failed"
        /\ pc = "done" =>
              /\ C5_Outputs
              /\ DOMAIN items = {"storage-heart.png", "storage-disk.png"}
              /\ DOMAIN tiles = {"storage-heart.png"}
              /\ LastLine = <<"DONE", 3, 2>>
              /\ copied = 3 /\ skipped = 2

C5_Witness ==
    /\ C5_Folder
    /\ ~Present(2)
    /\ pc = "done"
    /\ Source(3).size # <<32, 32>>
    /\ Len(stdout) = 6

\* C9: in main() copied is the number of output files written so far (one per
\* item target and one per tile target of the records whose source was there)
\* and skipped is the number of records skipped so far; when the run
\* completes, skipped plus the number of records processed is 4, copied is at
\* most 7 and the exit code is 0.
C9_Counters ==
    harness = "main" =>
        /\ copied = Cardinality(DOMAIN items) + Cardinality(DOMAIN tiles)
        /\ copied = Cardinality(Lines("ITEM")) + Cardinality(Lines("TILE"))
        /\ skipped = Cardinality(Lines("SKIP"))
        /\ skipped = Cardinality({i \in Records : Past(i) /\ ~Present(i)})
        /\ \A i \in Records : (ItemWritten(i) \/ TileWritten(i)) => Present(i)
        /\ pc = "done" =>
              /\ skipped + Cardinality({i \in Records : Present(i)}) = 4
              /\ copied <= 7
              /\ exitCode = 0
              /\ LastLine = <<"DONE", copied, skipped>>

\* a run on a folder with all four sources completed and wrote all 7 outputs
C9_Witness ==
    /\ harness = "main"
    /\ pc = "done"
    /\ copied = 7
    /\ skipped = 0

\* C6: when the source dir exists, a record whose source file is missing is
\* skipped and the run goes on: nothing is written for it, skipped grows by
\* exactly 1, and the record after it is examined next and is processed when
\* its source is there; this holds for every set of missing files, all four
\* included.
C6_SkipState ==
    (harness = "main" /\ srcDirExists) =>
        /\ \A i \in Records :
              ~Present(i) =>
                  /\ ~ItemWritten(i)
                  /\ ~TileWritten(i)
                  /\ Past(i) => \E n \in Lines("SKIP") :
                                    stdout[n][2] = MAPPINGS[i].source_name
        /\ pc = "failed" => Present(idx) /\ error = "ValueError"
        /\ pc = "done" =>
              \A i \in Records :
                  Present(i) => /\ HasItem(i) => ItemWritten(i)
                                /\ HasTile(i) => TileWritten(i)

C6_SkipStep ==
    (harness = "main" /\ pc = "exists") =>
        IF ~Present(idx)
        THEN /\ skipped' = skipped + 1
             /\ copied' = copied
             /\ items' = items
             /\ tiles' = tiles
             /\ error' = None
             /\ idx' = idx + 1
             /\ pc' = IF idx < 4 THEN "exists" ELSE "report"
        ELSE /\ skipped' = skipped
             /\ idx' = idx
             /\ pc' = "item"

C6_SkipAndContinue == []C6_SkipState /\ [][C6_SkipStep]_vars

\* a run in which the first two sources are missing and the last two are
\* there completed and wrote the outputs of the last two
C6_Witness ==
    /\ harness = "main"
    /\ pc = "done"
    /\ ~Present(1) /\ ~Present(2)
    /\ Present(3) /\ Present(4)
    /\ skipped = 2
    /\ ItemWritten(3) /\ ItemWritten(4) /\ TileWritten(4)

\* C7: when the source dir does not exist, main() raises FileNotFoundError
\* before the loop: no record is examined, nothing is written, items/ and
\* tiles/ are not created, and no summary is printed.
C7_NoDirState ==
    (harness = "main" /\ ~srcDirExists) =>
        /\ pc \in {"start", "failed"}
        /\ idx = 0
        /\ src_image = NoImage
        /\ items = <<>> /\ tiles = <<>>
        /\ stdout = <<>>
        /\ pc = "failed" => error = "FileNotFoundError" /\ exitCode = 1

C7_NoDirStep ==
    (harness = "main" /\ ~srcDirExists) =>
        /\ pc' = "failed"
        /\ itemsDirExists' = itemsDirExists
        /\ tilesDirExists' = tilesDirExists

C7_SourceDirMissing == []C7_NoDirState /\ [][C7_NoDirStep]_vars

\* the run has failed on a missing source dir and neither items/ nor tiles/ exists
C7_Witness ==
    /\ harness = "main"
    /\ ~srcDirExists
    /\ pc = "failed"
    /\ ~itemsDirExists
    /\ ~tilesDirExists

\* pad_2x2_tile_sheet accepts the source of record i when the record pads it
Accepted(i) ==
    ~MAPPINGS[i].pad_tile_2x2 \/ Source(i).size \in {<<32, 32>>, <<36, 36>>}

\* the outputs of record i are those of a run in which only record i exists
OutputsAsAlone(i) ==
    /\ HasItem(i) => ItemWritten(i) /\ SamePixels(ItemOf(i), Source(i))
    /\ (HasTile(i) /\ Accepted(i)) =>
          /\ TileWritten(i)
          /\ TileOf(i) = IF ~MAPPINGS[i].pad_tile_2x2 \/ Source(i).size = <<36, 36>>
                         THEN ConvertRGBA(Source(i))
                         ELSE RepackFrames(Source(i))

\* the run has ended with ValueError in the tile step of record i
FailedAt(i) == pc = "failed" /\ error = "ValueError" /\ idx = i

\* C8 as stated: a failure on one record (missing source, or ValueError in
\* the padding) leaves the outputs of every other record whose source is
\* present as they are in a run where the failing record had succeeded.
C8_AsStated ==
    (harness = "main" /\ pc \in {"done", "failed"}) =>
        \A i \in Records : (Present(i) /\ ~FailedAt(i)) => OutputsAsAlone(i)

\* C8 amended: a missing source never changes what is written for another
\* record, and a ValueError at record k leaves the outputs of the records
\* before k as they are: every record the loop is past and whose source is
\* present has the outputs of a run in which no other record failed.
C8_EarlierRecordsIntact ==
    harness = "main" =>
        \A i \in Records : (Present(i) /\ Past(i)) => OutputsAsAlone(i)

\* the run failed at record 4 after a skipped record 2, with records 1 and 3 written
C8_Witness ==
    /\ harness = "main"
    /\ FailedAt(4)
    /\ Present(1) /\ ~Present(2) /\ Present(3)
    /\ TileWritten(1) /\ ItemWritten(3)

\* C10: the item output of a record is written before its source is padded:
\* when the run ends with ValueError at record k (pad flag set, source
\* present, size neither 32x32 nor 36x36), the outputs of the records before
\* k and the item output of k are on disk, the tile output of k and every
\* output of the records after k are not, and no summary line was printed.
C10_ShapeMismatchAt ==
    (harness = "main" /\ pc = "failed" /\ error = "ValueError") =>
        /\ idx \in Records
        /\ MAPPINGS[idx].pad_tile_2x2
        /\ Present(idx)
        /\ Source(idx).size \notin {<<32, 32>>, <<36, 36>>}
        /\ HasItem(idx) => ItemWritten(idx) /\ SamePixels(ItemOf(idx), Source(idx))
        /\ ~TileWritten(idx)
        /\ \A i \in Records :
              /\ (i < idx /\ Present(i)) => /\ HasItem(i) => ItemWritten(i)
                                            /\ HasTile(i) => TileWritten(i)
              /\ i > idx => ~ItemWritten(i) /\ ~TileWritten(i)
        /\ Lines("DONE") = {}
        /\ Len(stdout) = copied + skipped
        /\ exitCode = 1

\* the run failed at record 2: record 1 is written, the item of record 2 is
\* written, nothing of records 3 and 4, whose sources are there
C10_Witness ==
    /\ harness = "main"
    /\ FailedAt(2)
    /\ Present(1) /\ Present(3) /\ Present(4)
    /\ ItemWritten(1) /\ TileWritten(1)
    /\ ItemWritten(2)

====
